---- MODULE Spec2Model ----
(***************************************************************************)
(* Model of app/main.py of mysql-performance-monitor: the health probe     *)
(* get_mysql_status_custom and the dispatch send_to_telex, run by          *)
(* monitor_task for one payload (specification Spec), and the /tick        *)
(* endpoint serving several requests on one event loop, with its executor  *)
(* threads and background tasks (specification TickSpec).                  *)
(*                                                                         *)
(* The MySQL server and the webhook destination are the environment: what  *)
(* a connect, a fetch or a POST yields is chosen nondeterministically at   *)
(* the step that performs it.  Metric values are modelled as strings (the  *)
(* process-list count of open_conn by its decimal text); a rendered       *)
(* message is the sequence of its lines, each line the sequence of the    *)
(* f-string's pieces (literal text and interpolated values).               *)
(***************************************************************************)
EXTENDS Naturals, Sequences, FiniteSets, TLC

VARIABLES
    payload,          \* the MonitorPayload handed to monitor_task
    current_payload,  \* the module-level global current_payload
    pc,               \* position of the call chain monitor_task/send_to_telex/probe
    params,           \* arguments of the get_mysql_status_custom call in progress
    connOpen,         \* the pymysql connection is open
    cursorOpen,       \* the cursor is open
    executed,         \* statements passed to cursor.execute, in order
    rows,             \* results of fetchone(), in order
    tables,           \* table_names
    report,           \* value returned by get_mysql_status_custom
    envelope,         \* the dict `payload` built in send_to_telex
    posts,            \* requests.post calls made: <<url, json>>
    response,         \* what requests.post returned
    result,           \* value returned by send_to_telex
    exc,              \* exception that propagated: [type, from]
    \* the /tick endpoint, per request
    requests,         \* the HTTP request received: [method, body]
    handler,          \* position of tick_endpoint's coroutine
    background_tasks, \* the tasks added to the request's BackgroundTasks
    mysql_status,     \* outcome of the probe awaited by tick_endpoint
    responses,        \* the response sent to the caller
    dispatch,         \* position of the request's background monitor_task
    used,             \* what send_to_telex read from current_payload
    sent,             \* the POSTs made by the request's dispatch
    \* the process and its environment
    loop,             \* the request whose coroutine occupies the event loop thread (0: none)
    server,           \* the MySQL server's state
    changes           \* number of times the server's state has changed

\* the variables of one monitor_task run
pipeVars == <<payload, pc, params, connOpen, cursorOpen, executed,
              rows, tables, report, envelope, posts, response, result, exc>>

\* the variables of the /tick endpoint
tickVars == <<requests, handler, background_tasks, mysql_status, responses,
              dispatch, used, sent, loop, server, changes>>

vars == <<pipeVars, current_payload, tickVars>>

(***************************************************************************)
(* Bounds and input sets                                                   *)
(***************************************************************************)
MaxTables == 1

\* Python None, as a record so that it compares with the dicts it stands in for
None == [none |-> TRUE]
NoRow == "<no row>"

Values == {"8.0.32", "3600"}
Rows == {NoRow} \cup Values
TableNames == {"table1", "table2"}
\* str(err) of the pymysql.OperationalError that pymysql.connect raises for an
\* unreachable host or wrong port (2003) and for rejected credentials (1045)
ConnectErrors == {"(2003, \"Can't connect to MySQL server\")", "(1045, 'Access denied')"}

\* What pymysql.connect can raise: the errors above, which are
\* pymysql.MySQLError, and errors outside that hierarchy (the RuntimeError of
\* the sha256/caching_sha2 authentication when `cryptography` is missing).
ConnectFailures ==
    {[type |-> "MySQLError", text |-> e] : e \in ConnectErrors}
    \cup {[type |-> "RuntimeError", text |-> "'cryptography' package is required"]}

\* str(err) of the pymysql.MySQLError a statement can fail with
QueryErrors == {"(1317, 'Query execution was interrupted')"}
TablesErrors == QueryErrors \cup {"(1046, 'No database selected')"}

\* requests.Response: a status code and a body that response.json() decodes
\* or not
NotJson == [not_json |-> TRUE]
Responses ==
    {[status_code |-> 202, body |-> [status |-> "success"]],
     [status_code |-> 404, body |-> [status |-> "error"]],
     [status_code |-> 502, body |-> NotJson]}
Urls == {"https://ping.telex.im/v1/webhooks/TEST_WEBHOOK"}

TableLists == UNION {[1..n -> TableNames] : n \in 0..MaxTables}

(***************************************************************************)
(* Setting, MonitorPayload                                                 *)
(***************************************************************************)
Setting(label, default) == [label |-> label, default |-> default]

MySQLLabels == <<"MySQL Host", "MySQL User", "MySQL Password", "MySQL Database">>

FullSettings ==
    << Setting("MySQL Host", "100.25.170.180"),
       Setting("MySQL User", "precious"),
       Setting("MySQL Password", "preciousese"),
       Setting("MySQL Database", "quizolia"),
       Setting("WebHook URL Configuration", "https://ping.telex.im/v1/webhooks/TEST_WEBHOOK"),
       Setting("interval", "*/5 * * * *") >>

\* A settings list that repeats a label, and lists that omit a MySQL label.
RepeatedSettings == <<Setting("MySQL Host", "localhost")>> \o FullSettings
NoDatabaseSettings == SelectSeq(FullSettings, LAMBDA s : s.label # "MySQL Database")

SettingsLists == {FullSettings, RepeatedSettings, NoDatabaseSettings, <<>>}

MonitorPayload ==
    [channel_id : {"mysql-performance-monitor"}, return_url : Urls, settings : SettingsLists]

(***************************************************************************)
(* send_to_telex: next(s.default for s in settings if s.label == label)    *)
(***************************************************************************)
HasLabel(settings, label) == \E i \in 1..Len(settings) : settings[i].label = label

NextDefault(settings, label) ==
    LET i == CHOOSE j \in 1..Len(settings) :
                 /\ settings[j].label = label
                 /\ \A k \in 1..(j-1) : settings[k].label # label
    IN settings[i].default

(***************************************************************************)
(* get_mysql_status_custom                                                 *)
(***************************************************************************)
\* The statements, in the order the function executes them (fetchone each).
\* Queries with the database name asked for before the version
QueriesSwapped == <<"dbname", "version", "uptime", "slow_queries", "threads_connected",
                    "connections", "open_conn", "qcache_hits">>

Queries == <<"version", "dbname", "uptime", "slow_queries", "threads_connected",
             "connections", "open_conn", "qcache_hits">>
TablesQuery == "tables"

MetricKeys == {Queries[i] : i \in 1..Len(Queries)}

\* FieldOf with the sentinel of the renderer instead of the probe's
FieldOfNA(row) == IF row = NoRow THEN "N/A" ELSE row

\* `row["..."] if row else "Unknown"`
FieldOf(row) == IF row = NoRow THEN "Unknown" ELSE row

\* the dict returned on the success path
\* SuccessReport with the number of tables as a further key
SuccessReportCounted(rs, tbls) ==
    [version           |-> FieldOf(rs[1]),
     dbname            |-> FieldOf(rs[2]),
     tables            |-> tbls,
     table_count       |-> Len(tbls),
     uptime            |-> FieldOf(rs[3]),
     slow_queries      |-> FieldOf(rs[4]),
     threads_connected |-> FieldOf(rs[5]),
     connections       |-> FieldOf(rs[6]),
     open_conn         |-> FieldOf(rs[7]),
     qcache_hits       |-> FieldOf(rs[8]),
     status            |-> "success"]

SuccessReport(rs, tbls) ==
    [version           |-> FieldOf(rs[1]),
     dbname            |-> FieldOf(rs[2]),
     tables            |-> tbls,
     uptime            |-> FieldOf(rs[3]),
     slow_queries      |-> FieldOf(rs[4]),
     threads_connected |-> FieldOf(rs[5]),
     connections       |-> FieldOf(rs[6]),
     open_conn         |-> FieldOf(rs[7]),
     qcache_hits       |-> FieldOf(rs[8]),
     status            |-> "success"]

\* FailureReport keeping a metric collected before the error
FailureReportPartial(err) == [error |-> err, status |-> "failure", version |-> "Unknown"]

\* FailureReport dropping the error text
FailureReportNoText(err) == [error |-> "", status |-> "failure"]

\* the dict returned by `except pymysql.MySQLError as err`
FailureReport(err) == [error |-> err, status |-> "failure"]

\* the except clause matches pymysql.MySQLError only
Caught(type) == type = "MySQLError"

(***************************************************************************)
(* The /tick endpoint: requests and the state before any has arrived       *)
(***************************************************************************)
NumRequests == 2
MaxChanges == 1

Reqs == 1..NumRequests

\* no request has been received, nothing runs on the event loop
TickQuiet ==
    /\ requests = [r \in Reqs |-> None]
    /\ handler = [r \in Reqs |-> "new"]
    /\ background_tasks = [r \in Reqs |-> <<>>]
    /\ mysql_status = [r \in Reqs |-> None]
    /\ responses = [r \in Reqs |-> None]
    /\ dispatch = [r \in Reqs |-> "none"]
    /\ used = [r \in Reqs |-> None]
    /\ sent = [r \in Reqs |-> <<>>]
    /\ loop = 0
    /\ changes = 0

Init ==
    /\ payload \in MonitorPayload
    /\ current_payload = None
    /\ pc = "monitor_task"
    /\ params = None
    /\ connOpen = FALSE
    /\ cursorOpen = FALSE
    /\ executed = <<>>
    /\ rows = <<>>
    /\ tables = <<>>
    /\ report = None
    /\ envelope = None
    /\ posts = <<>>
    /\ response = None
    /\ result = None
    /\ exc = None
    /\ TickQuiet
    /\ server = None

\* monitor_task: current_payload = payload; send_to_telex(payload.return_url)
MonitorTask ==
    /\ pc = "monitor_task"
    /\ current_payload' = payload
    /\ pc' = "send_to_telex"
    /\ UNCHANGED <<payload, params, connOpen, cursorOpen, executed, rows, tables,
                   report, envelope, posts, response, result, exc>>
    /\ UNCHANGED tickVars

\* send_to_telex: the four next(...) lookups in current_payload.settings that
\* build the arguments of get_mysql_status_custom; next() on an exhausted
\* generator raises StopIteration.
LookupSettings ==
    /\ pc = "send_to_telex"
    /\ LET s == current_payload.settings IN
       IF \A i \in 1..Len(MySQLLabels) : HasLabel(s, MySQLLabels[i])
       THEN /\ params' = [host     |-> NextDefault(s, "MySQL Host"),
                          user     |-> NextDefault(s, "MySQL User"),
                          password |-> NextDefault(s, "MySQL Password"),
                          database |-> NextDefault(s, "MySQL Database"),
                          port     |-> 3306]
            /\ pc' = "connect"
            /\ exc' = exc
       ELSE /\ params' = params
            /\ pc' = "raised"
            /\ exc' = [type |-> "StopIteration", from |-> "send_to_telex"]
    /\ UNCHANGED <<payload, current_payload, connOpen, cursorOpen, executed, rows,
                   tables, report, envelope, posts, response, result>>
    /\ UNCHANGED tickVars

\* An exception raised inside the try block of get_mysql_status_custom: the
\* except clause returns the failure dict for a pymysql.MySQLError and lets
\* anything else propagate.  Neither path closes the cursor or the connection.
ProbeRaise(type, text) ==
    IF Caught(type)
    THEN /\ report' = FailureReport(text)
         /\ pc' = "render"
         /\ exc' = exc
    ELSE /\ report' = report
         /\ pc' = "raised"
         /\ exc' = [type |-> type, from |-> "get_mysql_status_custom"]

\* pymysql.connect(...) and connection.cursor()
Connect ==
    /\ pc = "connect"
    /\ \/ /\ connOpen' = TRUE
          /\ cursorOpen' = TRUE
          /\ pc' = "query"
          /\ UNCHANGED <<report, exc>>
       \/ /\ \E f \in ConnectFailures : ProbeRaise(f.type, f.text)
          /\ UNCHANGED <<connOpen, cursorOpen>>
    /\ UNCHANGED <<payload, current_payload, params, executed, rows, tables,
                   envelope, posts, response, result>>
    /\ UNCHANGED tickVars

\* cursor.execute(<statement>); <name> = cursor.fetchone(), for the eight
\* single-row statements in program order
Fetch ==
    /\ pc = "query"
    /\ LET qi == Len(rows) + 1 IN
       /\ executed' = Append(executed, Queries[qi])
       /\ \/ /\ \E row \in Rows : rows' = Append(rows, row)
             /\ pc' = IF qi < Len(Queries) THEN "query" ELSE "tables"
             /\ UNCHANGED <<report, exc>>
          \/ /\ \E e \in QueryErrors : ProbeRaise("MySQLError", e)
             /\ rows' = rows
    /\ UNCHANGED <<payload, current_payload, params, connOpen, cursorOpen, tables,
                   envelope, posts, response, result>>
    /\ UNCHANGED tickVars

\* cursor.execute("SHOW TABLES;"); tables = cursor.fetchall(); table_names = [...]
FetchTables ==
    /\ pc = "tables"
    /\ executed' = Append(executed, TablesQuery)
    /\ \/ /\ tables' \in TableLists
          /\ pc' = "close"
          /\ UNCHANGED <<report, exc>>
       \/ /\ \E e \in TablesErrors : ProbeRaise("MySQLError", e)
          /\ tables' = tables
    /\ UNCHANGED <<payload, current_payload, params, connOpen, cursorOpen, rows,
                   envelope, posts, response, result>>
    /\ UNCHANGED tickVars

\* cursor.close(); connection.close(); return {...}
CloseAndReturn ==
    /\ pc = "close"
    /\ cursorOpen' = FALSE
    /\ connOpen' = FALSE
    /\ report' = SuccessReport(rows, tables)
    /\ pc' = "render"
    /\ UNCHANGED <<payload, current_payload, params, executed, rows, tables,
                   envelope, posts, response, result, exc>>
    /\ UNCHANGED tickVars

(***************************************************************************)
(* send_to_telex: the envelope                                             *)
(***************************************************************************)
\* dict.get(key, default)
Get(d, key, default) == IF key \in DOMAIN d THEN d[key] ELSE default

\* ', '.join(names)
RECURSIVE Join(_)
Join(names) ==
    IF Len(names) = 0 THEN ""
    ELSE IF Len(names) = 1 THEN names[1]
    ELSE names[1] \o ", " \o Join(Tail(names))

\* Message with the lines of Slow Queries and Threads Connected exchanged
MessageSwapped(r) ==
    << <<"MySQL Server Health Status:">>,
       <<"Version: ", Get(r, "version", "N/A")>>,
       <<"Database Name: ", Get(r, "dbname", "N/A")>>,
       <<"Available Tables: ", Join(Get(r, "tables", <<>>))>>,
       <<"Uptime: ", Get(r, "uptime", "N/A"), " seconds">>,
       <<"Threads Connected: ", Get(r, "threads_connected", "N/A")>>,
       <<"Slow Queries: ", Get(r, "slow_queries", "N/A")>>,
       <<"Total Connections: ", Get(r, "connections", "N/A")>>,
       <<"Current Open Connections: ", Get(r, "open_conn", "N/A")>>,
       <<"Query Cache Hits: ", Get(r, "qcache_hits", "N/A")>> >>

\* the f-string of payload["message"]: one tuple per line, the pieces of the
\* line in order
Message(r) ==
    << <<"MySQL Server Health Status:">>,
       <<"Version: ", Get(r, "version", "N/A")>>,
       <<"Database Name: ", Get(r, "dbname", "N/A")>>,
       <<"Available Tables: ", Join(Get(r, "tables", <<>>))>>,
       <<"Uptime: ", Get(r, "uptime", "N/A"), " seconds">>,
       <<"Slow Queries: ", Get(r, "slow_queries", "N/A")>>,
       <<"Threads Connected: ", Get(r, "threads_connected", "N/A")>>,
       <<"Total Connections: ", Get(r, "connections", "N/A")>>,
       <<"Current Open Connections: ", Get(r, "open_conn", "N/A")>>,
       <<"Query Cache Hits: ", Get(r, "qcache_hits", "N/A")>> >>

\* Envelope with a constant status
EnvelopeConstantStatus(r) ==
    [event_name |-> "MySQL Server Health Check",
     message    |-> Message(r),
     status     |-> "success",
     username   |-> "MySQL Monitor"]

\* the dict `payload` of send_to_telex
Envelope(r) ==
    [event_name |-> "MySQL Server Health Check",
     message    |-> Message(r),
     status     |-> r["status"],
     username   |-> "MySQL Monitor"]

BuildEnvelope ==
    /\ pc = "render"
    /\ envelope' = Envelope(report)
    /\ pc' = "post"
    /\ UNCHANGED <<payload, current_payload, params, connOpen, cursorOpen, executed,
                   rows, tables, report, posts, response, result, exc>>
    /\ UNCHANGED tickVars

\* headers={"Accept": ..., "Content-Type": ...}
PostHeaders == ("Accept" :> "application/json") @@ ("Content-Type" :> "application/json")

\* Post repeating the request after a transport failure
PostWithRetry ==
    /\ pc = "post"
    /\ posts' = Append(posts, [url     |-> payload.return_url,
                               json    |-> envelope,
                               headers |-> PostHeaders])
    /\ \/ /\ response' \in Responses
          /\ pc' = "json"
       \/ /\ response' = response
          /\ pc' = "post"
    /\ UNCHANGED <<payload, current_payload, params, connOpen, cursorOpen, executed,
                   rows, tables, report, envelope, result, exc>>
    /\ UNCHANGED tickVars

\* response = requests.post(webhook_url, json=payload, headers={...}): the
\* destination answers with some status code and a body that is JSON or not,
\* or the transport fails and requests raises.
Post ==
    /\ pc = "post"
    /\ posts' = Append(posts, [url     |-> payload.return_url,
                               json    |-> envelope,
                               headers |-> PostHeaders])
    /\ \/ /\ response' \in Responses
          /\ pc' = "json"
          /\ exc' = exc
       \/ /\ response' = response
          /\ pc' = "raised"
          /\ exc' = [type |-> "ConnectionError", from |-> "send_to_telex"]
    /\ UNCHANGED <<payload, current_payload, params, connOpen, cursorOpen, executed,
                   rows, tables, report, envelope, result>>
    /\ UNCHANGED tickVars

\* print("Telex Response:", response.json()); return response.json()
ReturnJson ==
    /\ pc = "json"
    /\ IF response.body # NotJson
       THEN /\ result' = response.body
            /\ pc' = "done"
            /\ exc' = exc
       ELSE /\ result' = result
            /\ pc' = "raised"
            /\ exc' = [type |-> "JSONDecodeError", from |-> "send_to_telex"]
    /\ UNCHANGED <<payload, current_payload, params, connOpen, cursorOpen, executed,
                   rows, tables, report, envelope, posts, response>>
    /\ UNCHANGED tickVars

Next ==
    \/ MonitorTask
    \/ LookupSettings
    \/ Connect
    \/ Fetch
    \/ FetchTables
    \/ CloseAndReturn
    \/ BuildEnvelope
    \/ Post
    \/ ReturnJson

Spec == Init /\ [][Next]_vars

(***************************************************************************)
(* tick_endpoint: the requests it can receive                              *)
(***************************************************************************)
\* Python None in a slot that otherwise holds a str
NoneStr == "<None>"

OtherUrl == "https://ping.telex.im/v1/webhooks/OTHER_WEBHOOK"

\* settings naming another server than FullSettings
OtherSettings ==
    << Setting("MySQL Host", "10.0.0.7"),
       Setting("MySQL User", "monitor"),
       Setting("MySQL Password", "secret"),
       Setting("MySQL Database", "shop") >>

\* bodies that MonitorPayload.parse_obj accepts: the complete payload, one
\* that lacks the MySQL Database setting, and one for another server whose
\* return_url is the empty str
ValidBodies ==
    {[channel_id |-> "mysql-performance-monitor", return_url |-> u, settings |-> FullSettings] :
        u \in Urls}
    \cup {[channel_id |-> "mysql-performance-monitor", return_url |-> OtherUrl,
           settings |-> NoDatabaseSettings]}
    \cup {[channel_id |-> "other-channel", return_url |-> "", settings |-> OtherSettings]}

\* a body that lacks return_url and settings
InvalidBody == [channel_id |-> "mysql-performance-monitor"]

HttpRequests ==
    {[method |-> "GET", body |-> None]}
    \cup {[method |-> "POST", body |-> b] : b \in ValidBodies \cup {InvalidBody}}

\* MonitorPayload.parse_obj(payload_json) raises a ValidationError unless the
\* three fields are present
Parses(body) == {"channel_id", "return_url", "settings"} \subseteq DOMAIN body

\* the payload tick_endpoint constructs for a GET
DefaultPayload ==
    [channel_id |-> "mysql-performance-monitor",
     return_url |-> "",
     settings   |-> << Setting("MySQL Host", ""),
                       Setting("MySQL User", ""),
                       Setting("MySQL Password", ""),
                       Setting("MySQL Database", ""),
                       Setting("WebHook URL Configuration", ""),
                       Setting("interval", "*/5 * * * *") >>]

\* `not return_url or not any(s.default for s in settings if s.label == "WebHook URL Configuration")`
NoWebhook(p) ==
    \/ p.return_url = ""
    \/ ~\E i \in 1..Len(p.settings) :
           /\ p.settings[i].label = "WebHook URL Configuration"
           /\ p.settings[i].default # ""

\* settings_dict = {s.label: s.default for s in settings}; settings_dict.get(label)
DictGet(settings, label) ==
    IF HasLabel(settings, label)
    THEN LET i == CHOOSE j \in 1..Len(settings) :
                      /\ settings[j].label = label
                      /\ \A k \in (j+1)..Len(settings) : settings[k].label # label
         IN settings[i].default
    ELSE NoneStr

\* the arguments tick_endpoint passes to get_mysql_status_custom
HandlerParams(p) ==
    [host     |-> DictGet(p.settings, "MySQL Host"),
     user     |-> DictGet(p.settings, "MySQL User"),
     password |-> DictGet(p.settings, "MySQL Password"),
     database |-> DictGet(p.settings, "MySQL Database"),
     port     |-> 3306]

\* the arguments send_to_telex passes to get_mysql_status_custom
DispatchParams(p) ==
    [host     |-> NextDefault(p.settings, "MySQL Host"),
     user     |-> NextDefault(p.settings, "MySQL User"),
     password |-> NextDefault(p.settings, "MySQL Password"),
     database |-> NextDefault(p.settings, "MySQL Database"),
     port     |-> 3306]

HasAllLabels(p) == \A i \in 1..Len(MySQLLabels) : HasLabel(p.settings, MySQLLabels[i])

(***************************************************************************)
(* The MySQL server, and get_mysql_status_custom as one step               *)
(***************************************************************************)
Connected == [type |-> "ok", text |-> ""]

\* the rows of a server that answers: the Qcache_hits row is missing
ServerRows ==
    {[i \in 1..Len(Queries) |-> IF i = 1 THEN "8.0.32" ELSE IF i < 8 THEN "3600" ELSE NoRow]}

\* what a connect yields, what the eight statements yield, and the tables
ServerStates ==
    {[connect |-> Connected, rows |-> rs, tables |-> <<"table1">>] : rs \in ServerRows}
    \cup {[connect |-> f, rows |-> [i \in 1..Len(Queries) |-> NoRow], tables |-> <<>>] :
             f \in {g \in ConnectFailures : g.text # "(1045, 'Access denied')"}}

\* the outcome of get_mysql_status_custom against server state s
ProbeOutcome(s) ==
    IF s.connect = Connected
    THEN [kind |-> "returned", report |-> SuccessReport(s.rows, s.tables)]
    ELSE IF Caught(s.connect.type)
    THEN [kind |-> "returned", report |-> FailureReport(s.connect.text)]
    ELSE [kind |-> "raised", type |-> s.connect.type, text |-> s.connect.text]

\* ServerAfterProbe of a probe that takes the server down
ServerAfterProbeDown(s) ==
    [connect |-> [type |-> "MySQLError", text |-> "(2003, \"Can't connect to MySQL server\")"],
     rows    |-> [i \in 1..Len(Queries) |-> NoRow],
     tables  |-> <<>>]

\* the server after the statements of a probe: SELECT and SHOW change nothing
ServerAfterProbe(s) == s

(***************************************************************************)
(* tick_endpoint                                                           *)
(***************************************************************************)
\* JSONResponse(status_code=202, content={"mysql_status": ..., "message": ...})
AcceptedResponse(status) ==
    [status_code |-> 202,
     content     |-> [mysql_status |-> status, message |-> "Check your Telex channel"]]

\* ErrorResponse with the client-error status the handler raises
ErrorResponseClient(text) == [status_code |-> 400, content |-> [error |-> text]]

\* JSONResponse(status_code=500, content={"error": str(e)})
ErrorResponse(text) == [status_code |-> 500, content |-> [error |-> text]]

\* AfterAddTask starting the task at once
AfterAddTaskEager == "due"

\* background_tasks.add_task(monitor_task, monitor_payload) only records the
\* task: it is not due before the response has been sent
AfterAddTask == "none"

\* Requests are numbered in the order the handler starts on them.
\* The handler from its entry to `await loop.run_in_executor(...)`, or to the
\* except clause: it parses the body (POST) or builds the default payload and
\* raises HTTPException(400) (GET), adds monitor_task to the background tasks
\* and submits the probe to the executor.
TickStart(r, req) ==
    /\ handler[r] = "new"
    /\ \A q \in 1..(r - 1) : handler[q] # "new"
    /\ loop = 0
    /\ requests' = [requests EXCEPT ![r] = req]
    /\ IF req.method = "POST" /\ ~Parses(req.body)
       THEN /\ responses' = [responses EXCEPT ![r] = ErrorResponse("ValidationError")]
            /\ handler' = [handler EXCEPT ![r] = "responded"]
            /\ UNCHANGED <<background_tasks, dispatch>>
       ELSE IF req.method = "GET" /\ NoWebhook(DefaultPayload)
       THEN /\ responses' = [responses EXCEPT ![r] =
                                ErrorResponse("400: No Telex webhook URL provided in payload.")]
            /\ handler' = [handler EXCEPT ![r] = "responded"]
            /\ UNCHANGED <<background_tasks, dispatch>>
       ELSE /\ background_tasks' = [background_tasks EXCEPT ![r] =
                    Append(@, IF req.method = "POST" THEN req.body ELSE DefaultPayload)]
            /\ handler' = [handler EXCEPT ![r] = "probing"]
            /\ dispatch' = [dispatch EXCEPT ![r] = AfterAddTask]
            /\ UNCHANGED responses
    /\ UNCHANGED <<mysql_status, used, sent, loop, server, changes>>
    /\ UNCHANGED <<pipeVars, current_payload>>

\* get_mysql_status_custom on an executor thread
WorkerProbe(r) ==
    /\ handler[r] = "probing"
    /\ mysql_status' = [mysql_status EXCEPT ![r] = ProbeOutcome(server)]
    /\ server' = ServerAfterProbe(server)
    /\ handler' = [handler EXCEPT ![r] = "probed"]
    /\ UNCHANGED <<requests, background_tasks, responses, dispatch, used, sent, loop, changes>>
    /\ UNCHANGED <<pipeVars, current_payload>>

\* the handler resumed after the await: return JSONResponse(202, ...), or the
\* except clause when the probe raised.  The response is sent and the
\* background tasks of the request become due.
TickRespond(r) ==
    /\ handler[r] = "probed"
    /\ loop = 0
    /\ responses' = [responses EXCEPT ![r] =
                        IF mysql_status[r].kind = "returned"
                        THEN AcceptedResponse(mysql_status[r].report)
                        ELSE ErrorResponse(mysql_status[r].text)]
    /\ handler' = [handler EXCEPT ![r] = "responded"]
    /\ dispatch' = [dispatch EXCEPT ![r] = IF background_tasks[r] # <<>> THEN "due" ELSE @]
    /\ UNCHANGED <<requests, background_tasks, mysql_status, used, sent, loop, server, changes>>
    /\ UNCHANGED <<pipeVars, current_payload>>

(***************************************************************************)
(* The background task: monitor_task and send_to_telex on the event loop   *)
(***************************************************************************)
\* HeldBy of a monitor_task that yields the event loop after its assignment
HeldByNobody(r) == 0

\* monitor_task awaits nothing: once started, its coroutine keeps the event
\* loop thread until it returns or raises
HeldBy(r) == r

\* coroutine r may take a step: no other coroutine occupies the loop
MayRun(r) == loop \in {0, r}

\* monitor_task: current_payload = payload
BgStart(r) ==
    /\ dispatch[r] = "due"
    /\ loop = 0
    /\ current_payload' = Head(background_tasks[r])
    /\ dispatch' = [dispatch EXCEPT ![r] = "send_to_telex"]
    /\ loop' = HeldBy(r)
    /\ UNCHANGED <<requests, handler, background_tasks, mysql_status, responses,
                   used, sent, server, changes>>
    /\ UNCHANGED pipeVars

\* send_to_telex: the next(...) lookups in current_payload.settings, and the
\* call of get_mysql_status_custom on the thread send_to_telex runs on
BgCall(r) ==
    /\ dispatch[r] = "send_to_telex"
    /\ MayRun(r)
    /\ IF HasAllLabels(current_payload)
       THEN /\ used' = [used EXCEPT ![r] = [params |-> DispatchParams(current_payload),
                                            status |-> None]]
            /\ dispatch' = [dispatch EXCEPT ![r] = "probing"]
            /\ UNCHANGED loop
       ELSE /\ dispatch' = [dispatch EXCEPT ![r] = "raised"]
            /\ loop' = 0
            /\ UNCHANGED used
    /\ UNCHANGED <<requests, handler, background_tasks, mysql_status, responses,
                   sent, server, changes>>
    /\ UNCHANGED <<pipeVars, current_payload>>

\* get_mysql_status_custom returns to send_to_telex, or raises through it
BgProbeReturn(r) ==
    /\ dispatch[r] = "probing"
    /\ MayRun(r)
    /\ server' = ServerAfterProbe(server)
    /\ LET o == ProbeOutcome(server) IN
       IF o.kind = "returned"
       THEN /\ used' = [used EXCEPT ![r].status = o.report]
            /\ dispatch' = [dispatch EXCEPT ![r] = "post"]
            /\ UNCHANGED loop
       ELSE /\ dispatch' = [dispatch EXCEPT ![r] = "raised"]
            /\ loop' = 0
            /\ UNCHANGED used
    /\ UNCHANGED <<requests, handler, background_tasks, mysql_status, responses,
                   sent, changes>>
    /\ UNCHANGED <<pipeVars, current_payload>>

\* how requests.post(url, ...) followed by response.json() can end; for a
\* url without a scheme requests.post raises MissingSchema
PostOutcomes(url) == IF url = "" THEN {"raised"} ELSE {"done", "raised", "blocked"}

\* BgPost whose failure replaces the response of the request
BgPostReportsFailure(r) ==
    /\ dispatch[r] = "post"
    /\ MayRun(r)
    /\ sent' = [sent EXCEPT ![r] = Append(@, [url  |-> Head(background_tasks[r]).return_url,
                                              json |-> Envelope(used[r].status)])]
    /\ \E outcome \in PostOutcomes(Head(background_tasks[r]).return_url) :
          /\ dispatch' = [dispatch EXCEPT ![r] = outcome]
          /\ loop' = IF outcome = "blocked" THEN loop ELSE 0
          /\ responses' = [responses EXCEPT ![r] =
                              IF outcome = "raised" THEN ErrorResponse("ConnectionError") ELSE @]
    /\ UNCHANGED <<requests, handler, background_tasks, mysql_status,
                   used, server, changes>>
    /\ UNCHANGED <<pipeVars, current_payload>>

\* requests.post(webhook_url, json=payload, headers=...) with no timeout, and
\* response.json(): the destination answers with JSON ("done"), answers with
\* something else or the transport fails ("raised"), or never answers
\* ("blocked": requests.post does not return).
BgPost(r) ==
    /\ dispatch[r] = "post"
    /\ MayRun(r)
    /\ sent' = [sent EXCEPT ![r] = Append(@, [url  |-> Head(background_tasks[r]).return_url,
                                              json |-> Envelope(used[r].status)])]
    /\ \E outcome \in PostOutcomes(Head(background_tasks[r]).return_url) :
          /\ dispatch' = [dispatch EXCEPT ![r] = outcome]
          /\ loop' = IF outcome = "blocked" THEN loop ELSE 0
    /\ UNCHANGED <<requests, handler, background_tasks, mysql_status, responses,
                   used, server, changes>>
    /\ UNCHANGED <<pipeVars, current_payload>>

\* the server's state changes (its counters move, it goes down or comes back)
ServerChange ==
    /\ changes < MaxChanges
    /\ server' \in ServerStates \ {server}
    /\ changes' = changes + 1
    /\ UNCHANGED <<requests, handler, background_tasks, mysql_status, responses,
                   dispatch, used, sent, loop>>
    /\ UNCHANGED <<pipeVars, current_payload>>

TickInit ==
    /\ payload = None
    /\ current_payload = None
    /\ pc = "idle"
    /\ params = None
    /\ connOpen = FALSE
    /\ cursorOpen = FALSE
    /\ executed = <<>>
    /\ rows = <<>>
    /\ tables = <<>>
    /\ report = None
    /\ envelope = None
    /\ posts = <<>>
    /\ response = None
    /\ result = None
    /\ exc = None
    /\ TickQuiet
    /\ server \in ServerStates

TickNext ==
    \/ \E r \in Reqs, req \in HttpRequests : TickStart(r, req)
    \/ \E r \in Reqs : WorkerProbe(r)
    \/ \E r \in Reqs : TickRespond(r)
    \/ \E r \in Reqs : BgStart(r)
    \/ \E r \in Reqs : BgCall(r)
    \/ \E r \in Reqs : BgProbeReturn(r)
    \/ \E r \in Reqs : BgPost(r)
    \/ ServerChange

TickSpec == TickInit /\ [][TickNext]_vars
(***************************************************************************)
(* Properties of get_mysql_status_custom                                   *)
(***************************************************************************)
ProbeReturned == report # None
ProbeRaised == pc = "raised" /\ exc.from = "get_mysql_status_custom"

SuccessShaped(r) ==
    /\ r.status = "success"
    /\ MetricKeys \subseteq DOMAIN r
    /\ "error" \notin DOMAIN r

FailureShaped(r) ==
    /\ r.status = "failure"
    /\ "error" \in DOMAIN r
    /\ DOMAIN r \cap MetricKeys = {}

\* C1: every report the probe returns is either success-shaped (status
\* "success", all eight metric fields, no error field) or failure-shaped
\* (status "failure", an error field, no metric field), never a mix.
C1_ReportShape ==
    ProbeReturned => (SuccessShaped(report) \/ FailureShaped(report))

\* a failure report returned after some rows had already been fetched
C1_Witness ==
    /\ ProbeReturned
    /\ report.status = "failure"
    /\ Len(rows) >= 2

\* C2: when the connection succeeded and every statement returned (with or
\* without a row), the probe returns status "success", each field whose
\* statement returned no row is "Unknown" and every other field is its row's
\* value.
C2_UnknownForMissingRow ==
    [][pc = "close" =>
         /\ report' # None
         /\ report'.status = "success"
         /\ \A i \in 1..Len(Queries) :
               /\ rows[i] = NoRow => report'[Queries[i]] = "Unknown"
               /\ rows[i] # NoRow => report'[Queries[i]] = rows[i]]_vars

\* a success report with several rows missing and the others present
C2_Witness ==
    /\ ProbeReturned
    /\ report.status = "success"
    /\ rows[1] = NoRow /\ rows[4] = NoRow /\ rows[8] = NoRow
    /\ rows[2] = "8.0.32" /\ rows[3] = "3600"
    /\ report.version = "Unknown" /\ report.uptime = "3600"

\* pymysql.connect raised the OperationalError of an unreachable host, a
\* wrong port or rejected credentials
ConnectRefused == pc = "connect" /\ ~connOpen' /\ pc' = "render"

\* C3: when the connection cannot be established (unreachable host, wrong
\* port, rejected credentials), the probe returns a failure-shaped report
\* with a non-empty error text, and has executed no statement.
C3_ConnectFailure ==
    [][ConnectRefused =>
         /\ report' # None
         /\ FailureShaped(report')
         /\ report'.error # ""
         /\ executed' = <<>>]_vars

\* the state right after a refused connection
C3_Witness ==
    /\ ProbeReturned
    /\ report.status = "failure"
    /\ report.error \in ConnectErrors
    /\ ~connOpen
    /\ executed = <<>>

\* C4: no exception escapes get_mysql_status_custom.
C4_NoExceptionEscapes == ~ProbeRaised

\* C5: whenever the probe has returned, its connection and cursor are closed.
C5_ClosedOnReturn == ProbeReturned => (~connOpen /\ ~cursorOpen)
(***************************************************************************)
(* Properties of send_to_telex                                             *)
(***************************************************************************)
\* the text of a line: its pieces concatenated
RECURSIVE Text(_)
Text(line) == IF Len(line) = 0 THEN "" ELSE Head(line) \o Text(Tail(line))

\* the labels of the eight metrics, in the order of the probe's statements
MetricLabels == <<"Version", "Database Name", "Uptime", "Slow Queries",
                  "Threads Connected", "Total Connections",
                  "Current Open Connections", "Query Cache Hits">>

\* the envelope has just been built (it is not assigned again afterwards)
Rendered == pc = "post"

\* the positions of the lines of the message whose text is t
LinesWith(t) == {j \in 1..Len(envelope.message) : Text(envelope.message[j]) = t}

\* "<Label>: <value>" of metric i of the report
LabelValue(i) == MetricLabels[i] \o ": " \o report[Queries[i]]

\* what follows "<Label>: <value>" on the line of metric i
Suffix(i) == IF Queries[i] = "uptime" THEN " seconds" ELSE ""

InOrder(P(_)) ==
    /\ \A i \in 1..Len(Queries) : P(i) # {}
    /\ \A i \in 1..(Len(Queries) - 1) : \A j \in P(i), k \in P(i + 1) : j < k

ExactLine(i) == LinesWith(LabelValue(i))
SuffixedLine(i) == LinesWith(LabelValue(i) \o Suffix(i))

\* C6 as stated: the message of a success-shaped report has, for each metric
\* and in the order of the statements, a line that reads "<Label>: <value>".
C6_LinePerMetricExact ==
    (Rendered /\ report.status = "success") => InOrder(ExactLine)

\* C6 amended: the message of a success-shaped report has, for each metric
\* and in the order of the statements, a line that reads "<Label>: <value>",
\* followed on the Uptime line by " seconds".
C6_LinePerMetric ==
    (Rendered /\ report.status = "success") => InOrder(SuffixedLine)

\* a rendered success report whose metrics differ from one another
C6_Witness ==
    /\ Rendered
    /\ report.status = "success"
    /\ report.version = "8.0.32" /\ report.uptime = "3600"
    /\ report.slow_queries = "Unknown" /\ report.threads_connected = "3600"

\* C7: the message rendered from a failure-shaped report contains the
\* report's error text.
C7_ErrorInMessage ==
    (Rendered /\ report.status = "failure") =>
        \E i \in 1..Len(envelope.message) :
            \E j \in 1..Len(envelope.message[i]) :
                envelope.message[i][j] = report.error

\* C8: every envelope posted has exactly the fields event_name, message,
\* status and username, the constant event name, and the status of the
\* report it was rendered from.
C8_EnvelopeFields ==
    \A i \in 1..Len(posts) :
        /\ DOMAIN posts[i].json = {"event_name", "message", "status", "username"}
        /\ posts[i].json.event_name = "MySQL Server Health Check"
        /\ posts[i].json.status = report.status
        /\ posts[i].json.status \in {"success", "failure"}

\* a posted envelope of a failed probe
C8_Witness ==
    /\ Len(posts) = 1
    /\ report.status = "failure"
    /\ posts[1].json.status = "failure"

\* C9: at most one POST is made per invocation, whatever its outcome.
C9_AtMostOnePost == Len(posts) <= 1

\* the POST failed in transport and the invocation ended without another
C9_Witness ==
    /\ Len(posts) = 1
    /\ pc = "raised"
    /\ exc.type = "ConnectionError"

\* C10: once the POST has been attempted, send_to_telex returns normally.
C10_DispatchNeverRaises ==
    Len(posts) >= 1 => ~(pc = "raised" /\ exc.from = "send_to_telex")
(***************************************************************************)
(* Properties of tick_endpoint and its background dispatch                 *)
(***************************************************************************)
Received(r) == handler[r] # "new"
Answered(r) == handler[r] = "responded"
ValidPost(r) == Received(r) /\ requests[r].method = "POST" /\ Parses(requests[r].body)

\* the dispatch of request r has started and not ended
DispatchRunning(r) == dispatch[r] \in {"send_to_telex", "probing", "post", "blocked"}
DispatchEnded(r) == dispatch[r] \in {"done", "raised"}
DispatchStarted(r) == DispatchRunning(r) \/ DispatchEnded(r)

C12_DispatchAfterResponse ==
    \A r \in Reqs : DispatchStarted(r) => (Answered(r) /\ responses[r] # None)

\* a dispatch in its first step, its request answered
C12_Witness ==
    \E r \in Reqs :
        /\ dispatch[r] = "send_to_telex"
        /\ responses[r].status_code = 202

\* C13: every valid POST is answered 202 with the report of the probe and
\* the acknowledgement message.
C13_ValidPostAccepted ==
    \A r \in Reqs :
        (ValidPost(r) /\ Answered(r)) =>
            /\ responses[r].status_code = 202
            /\ responses[r].content.mysql_status = mysql_status[r].report
            /\ responses[r].content.message = "Check your Telex channel"

C15_InvalidPostClientError ==
    \A r \in Reqs :
        (Answered(r) /\ requests[r].method = "POST" /\ ~Parses(requests[r].body)) =>
            responses[r].status_code \in 400..499

\* C16: the dispatch of a request reads its own payload from current_payload
\* and probes with the parameters of that payload, and posts to its own
\* return_url.
C16_OwnSettings ==
    \A r \in Reqs :
        /\ dispatch[r] = "send_to_telex" => current_payload = requests[r].body
        /\ used[r] # None => used[r].params = DispatchParams(requests[r].body)
        /\ \A i \in 1..Len(sent[r]) : sent[r][i].url = requests[r].body.return_url

\* two requests with different payloads, both dispatched
C16_Witness ==
    /\ used[1] # None /\ used[2] # None
    /\ Len(sent[1]) = 1 /\ Len(sent[2]) = 1
    /\ requests[1].body.settings # requests[2].body.settings
    /\ requests[1].body.return_url # requests[2].body.return_url

\* no invocation is in progress
Quiescent ==
    \A r \in Reqs :
        /\ handler[r] \in {"new", "responded"}
        /\ dispatch[r] \in {"none", "done", "raised"}

\* C17: when no invocation is in progress the process holds no data of an
\* earlier one.
C17_NoStateSurvives == Quiescent => current_payload = None

\* the probes made so far that returned: their arguments and their report
ProbesReturned ==
    {[params |-> HandlerParams(requests[r].body), report |-> mysql_status[r].report] :
        r \in {q \in Reqs : mysql_status[q] # None /\ mysql_status[q].kind = "returned"}}
    \cup
    {[params |-> used[r].params, report |-> used[r].status] :
        r \in {q \in Reqs : used[q] # None /\ used[q].status # None}}

Repeatable ==
    \A a, b \in ProbesReturned :
        (a.params = b.params /\ a.report.status = "success" /\ b.report.status = "success") =>
            /\ a.report.version = b.report.version
            /\ a.report.dbname = b.report.dbname

C19_DispatchTerminates ==
    \A r \in Reqs :
        DispatchRunning(r) => ENABLED (BgCall(r) \/ BgProbeReturn(r) \/ BgPost(r))

\* C20: while a probe made for a request runs, that request's coroutine does
\* not occupy the event loop thread.
C20_ProbeOffLoop ==
    \A r \in Reqs : (handler[r] = "probing" \/ dispatch[r] = "probing") => loop # r
(***************************************************************************)
(* get_integration_config: GET /integration.json                           *)
(*                                                                         *)
(* A URL is a sequence of pieces; the path is kept character by character  *)
(* so that rstrip("/") is computed as Python computes it.                  *)
(***************************************************************************)
MaxPathLen == 3

Origins == {"http://testserver", "https://monitor.example.com"}

RECURSIVE SeqsUpTo(_, _)
SeqsUpTo(S, n) ==
    IF n = 0 THEN {<<>>}
    ELSE LET shorter == SeqsUpTo(S, n - 1)
         IN shorter \cup {Append(q, c) : q \in shorter, c \in S}

\* request.base_url: scheme and host, then the root path, which always
\* starts and ends with "/"
BaseUrls ==
    {<<o>> \o path : o \in Origins,
                     path \in {q \in SeqsUpTo({"/", "a"}, MaxPathLen) :
                                  /\ q # <<>>
                                  /\ q[1] = "/"
                                  /\ q[Len(q)] = "/"}}

\* RStrip removing one trailing "/" only
RStripOnce(u) ==
    IF u # <<>> /\ u[Len(u)] = "/" THEN SubSeq(u, 1, Len(u) - 1) ELSE u

\* str.rstrip("/"): every trailing "/" is removed
RECURSIVE RStrip(_)
RStrip(u) ==
    IF u # <<>> /\ u[Len(u)] = "/" THEN RStrip(SubSeq(u, 1, Len(u) - 1)) ELSE u

\* the "settings" list of the integration document
ManifestSettings ==
    << [label |-> "MySQL Host", type |-> "text", required |-> "true", default |-> ""],
       [label |-> "MySQL User", type |-> "text", required |-> "true", default |-> ""],
       [label |-> "MySQL Password", type |-> "text", required |-> "true", default |-> ""],
       [label |-> "MySQL Database", type |-> "text", required |-> "true", default |-> ""],
       [label |-> "WebHook URL Configuration", type |-> "text", required |-> "true",
        default |-> ""],
       [label |-> "interval", type |-> "text", required |-> "true",
        default |-> "*/20 * * * *"] >>

\* the dict get_integration_config returns, which the framework sends with
\* status 200
IntegrationConfig(url) ==
    LET base_url == RStrip(url) IN
    [status_code |-> 200,
     content |->
       [data |->
          [date |-> [created_at |-> "2025-02-18", updated_at |-> "2025-02-18"],
           descriptions |->
              [app_name |-> "MySQL Performance Monitor",
               app_description |-> "Monitors MySQL Databases in real time",
               app_logo |-> "https://i.imgur.com/lZqvffp.png",
               app_url |-> base_url,
               background_color |-> "#fff"],
           is_active |-> "true",
           integration_category |-> "Monitoring & Logging",
           integration_type |-> "interval",
           key_features |-> << "Monitors a remote MySQL server",
                               "Logs MySQL Server health status to the Telex channel" >>,
           author |-> "Dohou Daniel Favour",
           settings |-> ManifestSettings,
           target_url |-> base_url \o <<"/tick">>,
           tick_url |-> base_url \o <<"/tick">>]]]

\* GET /integration.json from base URL url
GetIntegrationConfig(r, url) ==
    /\ handler[r] = "new"
    /\ \A q \in 1..(r - 1) : handler[q] # "new"
    /\ requests' = [requests EXCEPT ![r] =
                       [method |-> "GET", path |-> "/integration.json", base_url |-> url]]
    /\ responses' = [responses EXCEPT ![r] = IntegrationConfig(url)]
    /\ handler' = [handler EXCEPT ![r] = "responded"]
    /\ UNCHANGED <<background_tasks, mysql_status, dispatch, used, sent, loop, server, changes>>
    /\ UNCHANGED <<pipeVars, current_payload>>

\* the process at any time of its life: current_payload is None or the
\* payload of an earlier /tick
ManifestInit ==
    /\ payload = None
    /\ current_payload \in {None} \cup ValidBodies
    /\ pc = "idle"
    /\ params = None
    /\ connOpen = FALSE
    /\ cursorOpen = FALSE
    /\ executed = <<>>
    /\ rows = <<>>
    /\ tables = <<>>
    /\ report = None
    /\ envelope = None
    /\ posts = <<>>
    /\ response = None
    /\ result = None
    /\ exc = None
    /\ TickQuiet
    /\ server \in ServerStates

ManifestNext == \E r \in Reqs, url \in BaseUrls : GetIntegrationConfig(r, url)

ManifestSpec == ManifestInit /\ [][ManifestNext]_vars

\* the part of url before its trailing "/" characters
Stem(url) ==
    LET n == CHOOSE k \in 0..Len(url) :
                 /\ k = 0 \/ url[k] # "/"
                 /\ \A i \in (k + 1)..Len(url) : url[i] = "/"
    IN SubSeq(url, 1, n)

ManifestAnswered(r) == handler[r] = "responded" /\ requests[r].path = "/integration.json"

ManifestShape(r) ==
    /\ responses[r].status_code = 200
    /\ {"descriptions", "settings", "tick_url"} \subseteq DOMAIN responses[r].content.data
    /\ responses[r].content.data.target_url = responses[r].content.data.tick_url

SameUrlSameAnswer ==
    \A q, r \in Reqs :
        (ManifestAnswered(q) /\ ManifestAnswered(r)
            /\ requests[q].base_url = requests[r].base_url) => responses[q] = responses[r]

\* C21 as stated: GET /integration.json answers 200 with descriptions,
\* settings and tick_url in data, tick_url and target_url being the request's
\* base URL followed by "/tick", and equal base URLs get equal answers.
C21_ManifestBaseUrl ==
    /\ \A r \in Reqs :
          ManifestAnswered(r) =>
             /\ ManifestShape(r)
             /\ responses[r].content.data.tick_url = requests[r].base_url \o <<"/tick">>
    /\ SameUrlSameAnswer

\* C21: GET /integration.json answers 200 with descriptions, settings and
\* tick_url in data, tick_url and target_url being the request's base URL
\* without its trailing "/" characters followed by "/tick", and equal base
\* URLs get equal answers whatever current_payload holds.
C21_ManifestStrippedBaseUrl ==
    /\ \A r \in Reqs :
          ManifestAnswered(r) =>
             /\ ManifestShape(r)
             /\ responses[r].content.data.tick_url = Stem(requests[r].base_url) \o <<"/tick">>
    /\ SameUrlSameAnswer

\* two answered requests, one of them from a base URL with a root path
C21_Witness ==
    /\ ManifestAnswered(1) /\ ManifestAnswered(2)
    /\ requests[1].base_url = requests[2].base_url
    /\ Len(requests[1].base_url) > 2
    /\ current_payload # None
(***************************************************************************)
(* Statements and keys of get_mysql_status_custom                          *)
(***************************************************************************)
\* the eight status statements in their documented order
DocumentedOrder == <<"version", "dbname", "uptime", "slow_queries", "threads_connected",
                     "connections", "open_conn", "qcache_hits">>

IsPrefix(p, q) == Len(p) <= Len(q) /\ SubSeq(q, 1, Len(p)) = p

\* a statement is executed only when the rows of all earlier ones were fetched
OneAtATime == Len(rows) <= Len(executed) /\ Len(executed) <= Len(rows) + 1

\* C22 as stated: the statements are executed in the documented order, each
\* after the previous row was fetched, and no statement outside the eight is
\* executed.
C22_OnlyEightInOrder ==
    /\ IsPrefix(executed, DocumentedOrder)
    /\ OneAtATime

\* C22: the statements are executed in the documented order, each after the
\* previous row was fetched, and the only statement outside the eight is
\* SHOW TABLES, executed after the eighth.
C22_EightInOrderThenTables ==
    /\ IsPrefix(executed, DocumentedOrder \o <<"tables">>)
    /\ OneAtATime

\* the probe returned success after all its statements
C22_Witness ==
    /\ ProbeReturned
    /\ report.status = "success"
    /\ Len(executed) = 9
    /\ Len(rows) = 8

DocumentedKeys == {"version", "dbname", "uptime", "slow_queries", "threads_connected",
                   "connections", "open_conn", "qcache_hits", "status"}

ReturnedSuccess == ProbeReturned /\ report.status = "success"

\* C23 as stated: the keys of a success-shaped report are exactly the eight
\* metric keys and status.
C23_FixedKeySet == ReturnedSuccess => DOMAIN report = DocumentedKeys

\* C23: the keys of a success-shaped report are exactly the eight metric
\* keys, status and tables, whatever the server returns.
C23_FixedKeySetWithTables == ReturnedSuccess => DOMAIN report = DocumentedKeys \cup {"tables"}

\* a success report of a server that returned no row and no table
C23_Witness ==
    /\ ReturnedSuccess
    /\ \A i \in 1..8 : rows[i] = NoRow
    /\ tables = <<>>
(***************************************************************************)
(* Properties relating the response of /tick and its dispatch              *)
(***************************************************************************)
Accepted(r) == responses[r] # None /\ responses[r].status_code = 202

\* the dispatch of request r has called get_mysql_status_custom
DispatchProbed(r) == used[r] # None

\* C24: an accepted invocation probes the database once only, and every
\* envelope it posts is rendered from the report of its response.
C24_OneProbeOneReport ==
    \A r \in Reqs :
        Accepted(r) =>
            /\ ~DispatchProbed(r)
            /\ \A i \in 1..Len(sent[r]) :
                  sent[r][i].json = Envelope(responses[r].content.mysql_status)

\* the dispatch of request r is past the lookups of send_to_telex
LookedUp(r) == dispatch[r] \in {"probing", "post", "blocked", "done", "raised"}

\* C25: for every valid POST the parameters send_to_telex passes to the
\* probe are the ones tick_endpoint passed to it.
C25_SameParameters ==
    \A r \in Reqs :
        (ValidPost(r) /\ LookedUp(r)) =>
            /\ DispatchProbed(r)
            /\ used[r].params = HandlerParams(requests[r].body)

\* C26: a request answered with an error status has no dispatch: its task
\* never becomes due, it makes no probe and no POST.
C26_NoDispatchOnError ==
    \A r \in Reqs :
        (responses[r] # None /\ responses[r].status_code >= 400) =>
            /\ dispatch[r] = "none"
            /\ ~DispatchProbed(r)
            /\ sent[r] = <<>>

\* C27: when the database stays unreachable and the probe for the response
\* of a valid POST returned a failure report, the response is 202 with that
\* report and the ended dispatch has posted one envelope with status
\* "failure" to the return_url.
C27_FailureStillDispatched ==
    \A r \in Reqs :
        (ValidPost(r) /\ changes = 0 /\ mysql_status[r] # None
            /\ mysql_status[r].kind = "returned"
            /\ mysql_status[r].report.status = "failure") =>
            /\ Answered(r) => (Accepted(r) /\ FailureShaped(responses[r].content.mysql_status))
            /\ DispatchEnded(r) =>
                  /\ Len(sent[r]) = 1
                  /\ sent[r][1].url = requests[r].body.return_url
                  /\ sent[r][1].json.status = "failure"

\* C28: the ended dispatch of an accepted request has made exactly one POST,
\* to the return_url of the request.
C28_OnePostPerAccepted ==
    \A r \in Reqs :
        (Accepted(r) /\ DispatchEnded(r)) =>
            /\ Len(sent[r]) = 1
            /\ sent[r][1].url = requests[r].body.return_url

\* C29: no task is scheduled, and no POST made, with an empty return_url.
C29_NoEmptyDestination ==
    \A r \in Reqs :
        /\ \A i \in 1..Len(background_tasks[r]) : background_tasks[r][i].return_url # ""
        /\ \A i \in 1..Len(sent[r]) : sent[r][i].url # ""
====
